---- MODULE Spec2Model ----
(***************************************************************************)
(* Model of the hierarchical resolution engine (src/src/resolver.py) of    *)
(* codex-anamnestia.                                                       *)
(*                                                                         *)
(* Python values are tagged records, so that values of different Python    *)
(* types can be compared:                                                  *)
(*   None  [t |-> "none"]                                                  *)
(*   str   [t |-> "str",   s |-> <<"c", "1">>]    a sequence of characters *)
(*   int   [t |-> "int",   n |-> 3]                                        *)
(*   float [t |-> "float", m |-> 15, e |-> 1]     m / 10^e, here 1.5       *)
(*   dict  [t |-> "dict",  d |-> << <<k, v>>, ... >>]  in insertion order  *)
(*   list  [t |-> "list",  l |-> << v, ... >>]                             *)
(*   bool  [t |-> "bool",  b |-> TRUE]                                     *)
(* An exception that leaves a function is the outcome                      *)
(*         [t |-> "raise", e |-> "KeyError"].                              *)
(* Rules, conditions and transforms (the YAML mappings of a specification) *)
(* are TLA+ records whose fields are the keys the mapping has, so that     *)
(* Python's  'k' in rule  is  "k" \in DOMAIN rule.  A structure (an        *)
(* ordered mapping of output field name to rule) is a sequence of          *)
(* [key, rule] records.                                                    *)
(***************************************************************************)
EXTENDS Integers, Sequences, FiniteSets, TLC

VARIABLES
    pc,                 \* which call is in progress and where it stands
    spec,               \* resolve_data: the specification
    all_data,           \* the table set (name -> standardized table)
    items_to_process,   \* resolve_data: the items
    resolved_objects,   \* resolve_data: the records appended so far
    context,            \* _build_node/_get_value: the context of the call
    structure,          \* _build_node: the structure of the call
    rule,               \* _get_value/_apply_transform: the rule of the call
    value,              \* _apply_transform: the value handed in
    result,             \* what the call returned (or the exception it raised)
    twin,               \* the outcome of the same call on the twin table set
    stack,              \* _get_value: the rules of the calls in progress
    sources             \* main: the sources the loop has yet to standardize

vars == <<pc, spec, all_data, items_to_process, resolved_objects,
          context, structure, rule, value, result, twin, stack, sources>>

----------------------------------------------------------------------------
(* Python values *)

None == [t |-> "none"]
S(s) == [t |-> "str", s |-> s]
I(n) == [t |-> "int", n |-> n]
F(m, e) == [t |-> "float", m |-> m, e |-> e]
D(pairs) == [t |-> "dict", d |-> pairs]
L(elems) == [t |-> "list", l |-> elems]
B(b) == [t |-> "bool", b |-> b]
Raise(e) == [t |-> "raise", e |-> e]

IsRaise(v) == v.t = "raise"

Has(r, k) == k \in DOMAIN r

\* bool(v)
Truthy(v) ==
    CASE v.t = "none"  -> FALSE
      [] v.t = "str"   -> Len(v.s) > 0
      [] v.t = "int"   -> v.n # 0
      [] v.t = "float" -> v.m # 0
      [] v.t = "dict"  -> Len(v.d) > 0
      [] v.t = "list"  -> Len(v.l) > 0
      [] v.t = "bool"  -> v.b

\* hash(v) succeeds
Hashable(v) == v.t \notin {"dict", "list"}

Keys(d) == [j \in 1..Len(d.d) |-> d.d[j][1]]

KeySet(d) == {d.d[j][1] : j \in 1..Len(d.d)}

\* d[k] for a key the dict has
Lookup(d, k) == d.d[CHOOSE j \in 1..Len(d.d) : d.d[j][1] = k][2]

\* obj.get(k, default)
GetDefault(obj, k, default) ==
    IF obj.t # "dict" THEN Raise("AttributeError")
    ELSE IF ~Hashable(k) THEN Raise("TypeError")
    ELSE IF k \in KeySet(obj) THEN Lookup(obj, k)
    ELSE default

\* obj.get(k)
Get(obj, k) == GetDefault(obj, k, None)

\* DictSet with a new key put first
DictSetFront(d, k, v) ==
    IF k \in KeySet(d)
    THEN D([j \in 1..Len(d.d) |-> IF d.d[j][1] = k THEN <<k, v>> ELSE d.d[j]])
    ELSE D(<< <<k, v>> >> \o d.d)

\* d[k] = v on a dict: a new key goes last, an old key keeps its place
DictSet(d, k, v) ==
    IF k \in KeySet(d)
    THEN D([j \in 1..Len(d.d) |-> IF d.d[j][1] = k THEN <<k, v>> ELSE d.d[j]])
    ELSE D(Append(d.d, <<k, v>>))

\* k in container
Contains(container, k) ==
    CASE container.t = "dict" ->
            IF Hashable(k) THEN B(k \in KeySet(container))
            ELSE Raise("TypeError")
      [] container.t = "list" ->
            B(\E j \in 1..Len(container.l) : container.l[j] = k)
      [] container.t = "str" ->
            IF k.t # "str" THEN Raise("TypeError")
            ELSE B(\E a \in 1..(Len(container.s) + 1) :
                    /\ a + Len(k.s) - 1 <= Len(container.s)
                    /\ SubSeq(container.s, a, a + Len(k.s) - 1) = k.s)
      [] OTHER -> Raise("TypeError")

\* what  for item in v  yields, for the values that can be iterated
Elements(v) ==
    CASE v.t = "list" -> v.l
      [] v.t = "str"  -> [j \in 1..Len(v.s) |-> S(<<v.s[j]>>)]
      [] v.t = "dict" -> Keys(v)

\* len(v) succeeds
HasLen(v) == v.t \in {"list", "str", "dict"}

----------------------------------------------------------------------------
(* _get_value *)

\* the field of the linked item, or the item when the rule names no field
LinkedField(linked_item, r) ==
    IF IsRaise(linked_item) THEN linked_item
    ELSE IF linked_item = None THEN None
    ELSE IF Has(r, "field") THEN
        IF linked_item.t = "dict" THEN Get(linked_item, S(r.field))
        ELSE None
    ELSE linked_item

\* target_source.get(lookup_key), unless lookup_key is None
LinkedItem(target_source, lookup_key) ==
    IF IsRaise(lookup_key) THEN lookup_key
    ELSE IF lookup_key = None THEN None
    ELSE Get(target_source, lookup_key)

\* the direct rule: the field of the record the context has under 'from'
DirectField(source_object, r) ==
    IF IsRaise(source_object) THEN source_object
    ELSE IF Truthy(source_object) /\ Has(r, "field")
         THEN Get(source_object, S(r.field))
         ELSE None

RECURSIVE GetValue(_, _, _)

\* the linked rule, once the table is fetched
Linked(target_source, ctx, r, ad) ==
    IF target_source = None THEN None
    ELSE LinkedField(
            LinkedItem(target_source, GetValue(ctx, r.link_key, ad)), r)

GetValue(ctx, r, ad) ==
    IF Has(r, "link_key") THEN
        IF ~Has(r, "from") THEN Raise("KeyError")
        ELSE Linked(Get(ad, S(r.from)), ctx, r, ad)
    ELSE IF Has(r, "from_context") /\ Len(r.from_context) > 0 THEN
        Get(ctx, S(r.from_context))
    ELSE IF Has(r, "from_parent") /\ r.from_parent THEN
        IF ~Has(r, "field") THEN ctx
        ELSE Get(ctx, S(r.field))
    ELSE IF Has(r, "from") THEN DirectField(Get(ctx, S(r.from)), r)
    ELSE None

----------------------------------------------------------------------------
(* _check_condition: a bool or a raised exception *)

\* exists if condition_rule.get('exists') else not exists
ExistsOrNot(exists, condition_rule) ==
    IF IsRaise(exists) THEN exists
    ELSE IF Has(condition_rule, "exists") /\ condition_rule.exists
         THEN exists ELSE B(~exists.b)

\* Membership that takes a null key for a key the table lacks
MembershipOfNull(source_to_check, key_to_check, condition_rule) ==
    IF IsRaise(key_to_check) THEN key_to_check
    ELSE IF key_to_check = None THEN ExistsOrNot(B(FALSE), condition_rule)
    ELSE ExistsOrNot(Contains(source_to_check, key_to_check), condition_rule)

\* the answer once the key is resolved
Membership(source_to_check, key_to_check, condition_rule) ==
    IF IsRaise(key_to_check) THEN key_to_check
    ELSE IF key_to_check = None THEN B(FALSE)
    ELSE ExistsOrNot(Contains(source_to_check, key_to_check), condition_rule)

CheckCondition(ctx, condition_rule, ad) ==
    IF ~Has(condition_rule, "source") THEN Raise("KeyError")
    ELSE IF ~Has(condition_rule, "key") THEN Raise("KeyError")
    ELSE Membership(GetDefault(ad, S(condition_rule.source), D(<<>>)),
                    GetValue(ctx, condition_rule.key, ad), condition_rule)

----------------------------------------------------------------------------
(* str.split, str.strip, int(str) and float(str), on sequences of characters *)

\* the first index of s at which sub starts, or 0
Find(s, sub) ==
    LET hits == {a \in 1..(Len(s) - Len(sub) + 1) :
                    SubSeq(s, a, a + Len(sub) - 1) = sub}
    IN IF hits = {} THEN 0
       ELSE CHOOSE a \in hits : \A b \in hits : a <= b

\* s.split(delimiter), for a delimiter that is not empty
RECURSIVE StrSplit(_, _)
StrSplit(s, delimiter) ==
    LET a == Find(s, delimiter) IN
    IF a = 0 THEN <<s>>
    ELSE <<SubSeq(s, 1, a - 1)>>
         \o StrSplit(SubSeq(s, a + Len(delimiter), Len(s)), delimiter)

Whitespace == {" ", "\t", "\n", "\r"}

\* s.strip()
StrStrip(s) ==
    LET solid == {j \in 1..Len(s) : s[j] \notin Whitespace} IN
    IF solid = {} THEN <<>>
    ELSE SubSeq(s, CHOOSE a \in solid : \A b \in solid : a <= b,
                   CHOOSE a \in solid : \A b \in solid : a >= b)

Digits == {"0", "1", "2", "3", "4", "5", "6", "7", "8", "9"}

DigitVal(c) ==
    CASE c = "0" -> 0 [] c = "1" -> 1 [] c = "2" -> 2 [] c = "3" -> 3
      [] c = "4" -> 4 [] c = "5" -> 5 [] c = "6" -> 6 [] c = "7" -> 7
      [] c = "8" -> 8 [] c = "9" -> 9

\* the number a sequence of digits (and underscores, which are skipped) writes
RECURSIVE DigitsVal(_)
DigitsVal(s) ==
    IF s = <<>> THEN 0
    ELSE IF s[Len(s)] = "_" THEN DigitsVal(SubSeq(s, 1, Len(s) - 1))
    ELSE 10 * DigitsVal(SubSeq(s, 1, Len(s) - 1)) + DigitVal(s[Len(s)])

\* digits, with single underscores between digits only
IsDigitRun(s) ==
    /\ s # <<>>
    /\ \A j \in 1..Len(s) : s[j] \in Digits \cup {"_"}
    /\ s[1] # "_" /\ s[Len(s)] # "_"
    /\ \A j \in 1..(Len(s) - 1) : ~(s[j] = "_" /\ s[j + 1] = "_")

HasSign(s) == s # <<>> /\ s[1] \in {"+", "-"}

Unsigned(s) == IF HasSign(s) THEN Tail(s) ELSE s

Signed(s, n) == IF HasSign(s) /\ s[1] = "-" THEN 0 - n ELSE n

\* int(s) for a stripped string: an optional sign and a run of digits
ParseInt(s) ==
    IF IsDigitRun(Unsigned(s)) THEN I(Signed(s, DigitsVal(Unsigned(s))))
    ELSE Raise("ValueError")

\* m / 10^e with no trailing zero left in the fraction
RECURSIVE Normalize(_, _)
Normalize(m, e) ==
    IF e > 0 /\ m % 10 = 0 THEN Normalize(m \div 10, e - 1) ELSE F(m, e)

\* float(s) for a stripped string in decimal point notation: an optional
\* sign, digits and at most one point, with a digit on one side of it at
\* least (exponents, "inf" and "nan" are not modelled)
ParseFloat(s) ==
    LET u == Unsigned(s)
        p == Find(u, <<".">>)
        whole == IF p = 0 THEN u ELSE SubSeq(u, 1, p - 1)
        frac == IF p = 0 THEN <<>> ELSE SubSeq(u, p + 1, Len(u))
        fracDigits == Cardinality({j \in 1..Len(frac) : frac[j] # "_"})
    IN IF /\ whole = <<>> \/ IsDigitRun(whole)
          /\ frac = <<>> \/ IsDigitRun(frac)
          /\ whole # <<>> \/ frac # <<>>
       THEN Normalize(Signed(s, DigitsVal(whole \o frac)), fracDigits)
       ELSE Raise("ValueError")

----------------------------------------------------------------------------
(* _apply_transform *)

\* StrippedPieces without the filter: the empty pieces stay
RECURSIVE StrippedPiecesKeepEmpty(_)
StrippedPiecesKeepEmpty(split_values) ==
    IF split_values = <<>> THEN <<>>
    ELSE <<S(StrStrip(Head(split_values)))>>
         \o StrippedPiecesKeepEmpty(Tail(split_values))

\* [v.strip() for v in split_values if v.strip()]
RECURSIVE StrippedPieces(_)
StrippedPieces(split_values) ==
    IF split_values = <<>> THEN <<>>
    ELSE LET v == StrStrip(Head(split_values)) IN
         (IF v # <<>> THEN <<S(v)>> ELSE <<>>)
         \o StrippedPieces(Tail(split_values))

\* int(piece) or float(piece) of every piece
CastPieces(pieces, as_type) ==
    IF as_type = "int"
    THEN [j \in 1..Len(pieces) |-> ParseInt(pieces[j].s)]
    ELSE [j \in 1..Len(pieces) |-> ParseFloat(pieces[j].s)]

\* PiecesAs with each piece cast on its own: a piece that cannot be cast
\* stays a string beside the ones that were cast
PiecesAsPartial(pieces, cast, as_type) ==
    IF as_type \in {"int", "float"}
    THEN L([j \in 1..Len(pieces) |->
                IF IsRaise(cast[j]) THEN pieces[j] ELSE cast[j]])
    ELSE L(pieces)

\* the try block: the cast pieces, or the strings when a cast raised
\* ValueError or no cast is asked for
PiecesAs(pieces, cast, as_type) ==
    IF as_type \in {"int", "float"}
    THEN IF \E j \in 1..Len(cast) : IsRaise(cast[j])
         THEN L(pieces)
         ELSE L(cast)
    ELSE L(pieces)

\* the typed list of the pieces
TypedPieces(pieces, as_type) ==
    PiecesAs(pieces, CastPieces(pieces, as_type), as_type)

\* the split branch: value is any value, delimiter a string, as_type a name
SplitTransform(v, delimiter, as_type) ==
    IF v.t # "str" THEN v
    ELSE IF delimiter = <<>> THEN Raise("ValueError")
    ELSE TypedPieces(StrippedPieces(StrSplit(v.s, delimiter)), as_type)

\* the lookup branch
LookupTransform(v, transform_rule, ad) ==
    IF ~Has(transform_rule, "in_source") \/ transform_rule.in_source = <<>>
    THEN v
    ELSE Get(GetDefault(ad, S(transform_rule.in_source), D(<<>>)), v)

ApplyTransform(v, r, ad) ==
    IF ~Has(r, "transform") \/ DOMAIN r.transform = {} \/ v = None THEN v
    ELSE
    LET transform_rule == r.transform
        transform_type == IF Has(transform_rule, "type")
                          THEN transform_rule.type ELSE "" IN
    IF transform_type = "lookup" THEN LookupTransform(v, transform_rule, ad)
    ELSE IF transform_type = "split" THEN
        SplitTransform(v,
            IF Has(transform_rule, "delimiter")
                THEN transform_rule.delimiter ELSE <<",">>,
            IF Has(transform_rule, "as_type")
                THEN transform_rule.as_type ELSE "string")
    ELSE v

\* _apply_transform of a value that was looked up
Transformed(raw_value, r, ad) ==
    IF IsRaise(raw_value) THEN raw_value
    ELSE ApplyTransform(raw_value, r, ad)

\* _resolve_simple_value
ResolveSimpleValue(ctx, r, ad) == Transformed(GetValue(ctx, r, ad), r, ad)

----------------------------------------------------------------------------
(* _build_node *)

\* CoalesceValue with every sub-rule evaluated before the first value is
\* picked
CoalesceValueEager(ctx, sub_rules, ad) ==
    LET vals == [j \in 1..Len(sub_rules) |->
                    ResolveSimpleValue(ctx, sub_rules[j], ad)]
        raised == {j \in 1..Len(vals) : IsRaise(vals[j])}
        found == {j \in 1..Len(vals) : vals[j] # None}
    IN IF raised # {}
       THEN vals[CHOOSE j \in raised : \A h \in raised : j <= h]
       ELSE IF found = {} THEN None
       ELSE vals[CHOOSE j \in found : \A h \in found : j <= h]

RECURSIVE CoalesceValue(_, _, _)

\* the body of the coalesce loop: break when the value is not None
FirstValue(v, ctx, sub_rules, ad) ==
    IF v # None THEN v
    ELSE CoalesceValue(ctx, Tail(sub_rules), ad)

\* the coalesce loop: the first sub-rule whose value is not None decides
CoalesceValue(ctx, sub_rules, ad) ==
    IF sub_rules = <<>> THEN None
    ELSE FirstValue(ResolveSimpleValue(ctx, Head(sub_rules), ad),
                    ctx, sub_rules, ad)

\* len(linked_list), taken for the debug message
WithLen(linked_list) ==
    IF HasLen(linked_list) THEN linked_list ELSE Raise("TypeError")

\* linked_list, from the linked item
ListOf(linked_item, r) ==
    IF IsRaise(linked_item) THEN linked_item
    ELSE WithLen(IF Has(r, "field") /\ linked_item.t = "dict"
                 THEN GetDefault(linked_item, S(r.field), L(<<>>))
                 ELSE IF linked_item.t = "list" THEN linked_item
                 ELSE L(<<>>))

\* the linked item of the list rule, from its lookup key
FetchList(lookup_key, r, ad) ==
    IF IsRaise(lookup_key) THEN lookup_key
    ELSE IF ~Has(r, "from") THEN Raise("KeyError")
    ELSE ListOf(Get(GetDefault(ad, S(r.from), D(<<>>)), lookup_key), r)

\* the list a List rule links to: a value, or the exception raised on the
\* way to it
LinkedList(ctx, r, ad) ==
    IF ~Has(r, "link_key") THEN Raise("KeyError")
    ELSE FetchList(GetValue(ctx, r.link_key, ad), r, ad)

RECURSIVE BuildNode(_, _, _)

\* list_items with one more sub-object in front
PrependItem(first, rest) ==
    IF IsRaise(first) THEN first
    ELSE IF IsRaise(rest) THEN rest
    ELSE L(<<first>> \o rest.l)

\* the loop over linked_list that builds one sub-object per item
RECURSIVE BuildItems(_, _, _)
BuildItems(elems, sub_object, ad) ==
    IF elems = <<>> THEN L(<<>>)
    ELSE PrependItem(BuildNode(Head(elems), sub_object, ad),
                     BuildItems(Tail(elems), sub_object, ad))

\* ItemsOf with each element added to the parent's context instead of
\* replacing it
ItemsOfExtending(linked_list, ctx, r, ad) ==
    IF IsRaise(linked_list) THEN linked_list
    ELSE IF Has(r, "sub_object")
         THEN LET elems == Elements(linked_list) IN
              BuildItems([j \in 1..Len(elems) |->
                            IF elems[j].t = "dict" /\ ctx.t = "dict"
                            THEN D(ctx.d \o elems[j].d) ELSE elems[j]],
                         r.sub_object, ad)
         ELSE linked_list

\* the value of the list field, from linked_list: one sub-object per item,
\* each built with the item as its context, or the list as it is
ItemsOf(linked_list, ctx, r, ad) ==
    IF IsRaise(linked_list) THEN linked_list
    ELSE IF Has(r, "sub_object")
         THEN BuildItems(Elements(linked_list), r.sub_object, ad)
         ELSE linked_list

\* the list branch
ListValue(ctx, r, ad) == ItemsOf(LinkedList(ctx, r, ad), ctx, r, ad)

\* FieldValue that reads rule['fields'] of an object rule without asking
\* whether the rule has it
FieldValueStrict(ctx, r, ad) ==
    IF Has(r, "coalesce") THEN CoalesceValue(ctx, r.coalesce, ad)
    ELSE IF Has(r, "type") /\ r.type = "object" THEN
        IF ~Has(r, "fields") THEN Raise("KeyError")
        ELSE BuildNode(ctx, r.fields, ad)
    ELSE IF Has(r, "type") /\ r.type = "list" THEN ListValue(ctx, r, ad)
    ELSE ResolveSimpleValue(ctx, r, ad)

\* the value one field gets, by the form of its rule
FieldValue(ctx, r, ad) ==
    IF Has(r, "coalesce") THEN CoalesceValue(ctx, r.coalesce, ad)
    ELSE IF Has(r, "type") /\ r.type = "object" THEN
        IF ~Has(r, "fields") THEN None
        ELSE BuildNode(ctx, r.fields, ad)
    ELSE IF Has(r, "type") /\ r.type = "list" THEN ListValue(ctx, r, ad)
    ELSE ResolveSimpleValue(ctx, r, ad)

\* ConditionMet with the condition of an object or list rule not looked at
ConditionMetSimpleOnly(ctx, r, ad) ==
    IF Has(r, "condition") /\ ~Has(r, "type")
    THEN CheckCondition(ctx, r.condition, ad) ELSE B(TRUE)

\* whether the field is to be built: its condition, if it has one
ConditionMet(ctx, r, ad) ==
    IF Has(r, "condition")
    THEN CheckCondition(ctx, r.condition, ad) ELSE B(TRUE)

RECURSIVE BuildFrom(_, _, _, _, _)

\* output_node[key] = v, and on to the next field
Put(v, ctx, struct, ad, k, output_node) ==
    IF IsRaise(v) THEN v
    ELSE BuildFrom(ctx, struct, ad, k + 1,
                   DictSet(output_node, S(struct[k].key), v))

\* the body of the loop for field k: skipped (continue) when the condition
\* is not met
Visit(met, ctx, struct, ad, k, output_node) ==
    IF IsRaise(met) THEN met
    ELSE IF ~met.b THEN BuildFrom(ctx, struct, ad, k + 1, output_node)
    ELSE Put(FieldValue(ctx, struct[k].rule, ad),
             ctx, struct, ad, k, output_node)

\* the loop over structure.items(), from field k on, output_node so far
BuildFrom(ctx, struct, ad, k, output_node) ==
    IF k > Len(struct) THEN output_node
    ELSE Visit(ConditionMet(ctx, struct[k].rule, ad),
               ctx, struct, ad, k, output_node)

BuildNode(ctx, struct, ad) == BuildFrom(ctx, struct, ad, 1, D(<<>>))

----------------------------------------------------------------------------
(* resolve_data *)

IsUnion(sp) ==
    Has(sp, "resolution_strategy") /\ sp.resolution_strategy = "union"

\* the context of one item: an exception when the strategy is not union and
\* the specification names no primary_source
RootContext(sp, item) ==
    IF IsUnion(sp) THEN D(<< <<S(<<"u","n","i","o","n","_","i","d">>), item>> >>)
    ELSE IF ~Has(sp, "primary_source") THEN Raise("KeyError")
    ELSE D(<< <<S(sp.primary_source), item>> >>)

----------------------------------------------------------------------------
(* The tables, items and rules the checks draw from *)

n_zones == <<"z","o","n","e","s">>
n_creatures == <<"c","r","e","a","t","u","r","e","s">>
n_spawners == <<"s","p","a","w","n","e","r","s">>
n_union_id == <<"u","n","i","o","n","_","i","d">>
n_id == <<"i","d">>
n_boss == <<"b","o","s","s">>
n_note == <<"n","o","t","e">>
n_name == <<"n","a","m","e">>
n_tags == <<"t","a","g","s">>
n_zid == <<"z","i","d">>
n_cid == <<"c","i","d">>

z1 == S(<<"z","1">>)
z2 == S(<<"z","2">>)
c1 == S(<<"c","1">>)
cx == S(<<"c","x">>)
Wolf == S(<<"W","o","l","f">>)

\* zone z1 has a boss the creatures table knows, zone z2 one it does not
zone1 == D(<< <<S(n_id), z1>>, <<S(n_boss), c1>>, <<S(n_note), None>> >>)
zone2 == D(<< <<S(n_id), z2>>, <<S(n_boss), cx>> >>)
creature1 == D(<< <<S(n_id), c1>>, <<S(n_name), Wolf>>,
                  <<S(n_tags), S(<<"1",","," ","2",",","x">>)>> >>)
spawner1 == D(<< <<S(n_id), S(<<"s","1">>)>>, <<S(n_zid), z1>>,
                 <<S(n_cid), c1>> >>)
spawner2 == D(<< <<S(n_id), S(<<"s","2">>)>>, <<S(n_zid), z1>>,
                 <<S(n_cid), cx>> >>)

\* the table zones, keyed by id
ZonesTable == D(<< <<z1, zone1>>, <<z2, zone2>> >>)

\* creatures: keyed by id, or raw (no key declared), or missing
CreaturesTables == {D(<< <<c1, creature1>> >>), L(<<creature1>>), None}

\* spawners: grouped by zid, or empty, or missing
SpawnersTables == {D(<< <<z1, L(<<spawner1, spawner2>>)>> >>), D(<<>>), None}

\* a table set; a table that is missing has no entry
TableSet(creatures, spawners) ==
    D(<< <<S(n_zones), ZonesTable>> >>
      \o (IF creatures = None THEN <<>> ELSE << <<S(n_creatures), creatures>> >>)
      \o (IF spawners = None THEN <<>> ELSE << <<S(n_spawners), spawners>> >>))

AllDataSet == {TableSet(c, s) : c \in CreaturesTables, s \in SpawnersTables}

\* simple rules
FromZone(f) == [from |-> n_zones, field |-> f]
FromParent(f) == [from_parent |-> TRUE, field |-> f]
BossName == [link_key |-> FromZone(n_boss), from |-> n_creatures,
             field |-> n_name]
BossRecord == [link_key |-> FromZone(n_boss), from |-> n_creatures]
NoFrom == [link_key |-> FromZone(n_boss), field |-> n_name]
RecordKey == [link_key |-> [from_context |-> n_zones], from |-> n_creatures,
              field |-> n_name]
UnionBoss == [link_key |-> [from_context |-> n_union_id], from |-> n_zones,
              field |-> n_boss]
Chained == [link_key |-> UnionBoss, from |-> n_creatures, field |-> n_name]
BossKnown(e) == [source |-> n_creatures, key |-> FromZone(n_boss), exists |-> e]

SimpleRules ==
    {FromZone(n_id), FromZone(n_note), [from_context |-> n_zones],
     [from_context |-> n_union_id], [from_parent |-> TRUE], FromParent(n_id),
     FromParent(n_cid), BossName, BossRecord, NoFrom, RecordKey, UnionBoss,
     Chained,
     [link_key |-> FromParent(n_cid), from |-> n_creatures, field |-> n_name],
     [link_key |-> FromParent(n_zid), from |-> n_spawners, field |-> n_id],
     [field |-> n_id]}

\* what each element of a list of spawners becomes
SpawnObject ==
    << [key |-> n_id, rule |-> FromParent(n_id)],
       [key |-> n_zones, rule |-> FromZone(n_id)],
       [key |-> n_name, rule |->
            [link_key |-> FromParent(n_cid), from |-> n_creatures,
             field |-> n_name,
             condition |-> [source |-> n_creatures, key |-> FromParent(n_cid),
                            exists |-> TRUE]]] >>

\* the fields an output structure is made of
FieldPool ==
    << [key |-> <<"a">>, rule |-> FromZone(n_id)],
       [key |-> <<"b">>, rule |-> BossName],
       [key |-> <<"c">>, rule |->
            [coalesce |-> <<FromZone(n_note), BossName, FromZone(n_id), NoFrom>>]],
       [key |-> <<"d">>, rule |->
            [type |-> "list", from |-> n_spawners, link_key |-> FromZone(n_id),
             sub_object |-> SpawnObject]],
       [key |-> <<"e">>, rule |->
            [from |-> n_zones, field |-> n_note, condition |-> BossKnown(TRUE)]],
       [key |-> <<"f">>, rule |->
            [type |-> "object", fields |->
                << [key |-> n_name, rule |-> BossName],
                   [key |-> n_id, rule |->
                        [from |-> n_zones, field |-> n_id,
                         condition |-> BossKnown(FALSE)]] >>]],
       [key |-> <<"g">>, rule |->
            [link_key |-> FromZone(n_boss), from |-> n_creatures,
             field |-> n_tags,
             transform |-> [type |-> "split", as_type |-> "int"]]],
       [key |-> <<"h">>, rule |-> [from_context |-> n_union_id]],
       [key |-> <<"i">>, rule |->
            [type |-> "list", from |-> n_spawners, link_key |-> FromZone(n_id),
             condition |-> BossKnown(FALSE)]],
       [key |-> <<"j">>, rule |-> NoFrom],
       [key |-> <<"k">>, rule |->
            [from |-> n_zones, field |-> n_boss,
             transform |-> [type |-> "lookup", in_source |-> n_creatures]]],
       [key |-> <<"l">>, rule |-> [type |-> "object"]],
       [key |-> <<"m">>, rule |->
            [coalesce |-> <<UnionBoss, FromZone(n_boss)>>,
             condition |-> [source |-> n_zones,
                            key |-> [from_context |-> n_union_id],
                            exists |-> TRUE]]],
       [key |-> <<"n">>, rule |-> [from_context |-> n_zones]],
       [key |-> <<"o">>, rule |->
            [type |-> "list", from |-> n_zones, field |-> n_note,
             link_key |-> FromZone(n_id)]],
       [key |-> <<"p">>, rule |->
            [type |-> "object", condition |-> BossKnown(TRUE),
             fields |-> << [key |-> <<"a">>, rule |-> RecordKey] >>]] >>

PoolSize == Len(FieldPool)

\* how many fields a structure has at most, and items a run
MaxFields == 2
MaxItems == 2

\* the orders in which a structure takes its fields from the pool: forward,
\* backward, and two scattered ones (each odd, so that no field comes twice)
Steps == {1, 3, 5, PoolSize - 1}

\* the structure of n fields that starts at field a of the pool and goes on
\* in steps of step
StructureOf(a, step, n) ==
    [j \in 1..n |-> FieldPool[((a - 1 + (j - 1) * step) % PoolSize) + 1]]

Structures ==
    {StructureOf(a, step, n) : a \in 1..PoolSize, step \in Steps,
                               n \in 0..MaxFields}

SeqsUpTo(set, n) == UNION {[1..m -> set] : m \in 0..n}

----------------------------------------------------------------------------
(* resolve_data, one step of its loop at a time *)

\* the specifications: both strategies over every structure, and the ones
\* that lack output_structure or primary_source
SpecSet ==
    {[output_structure |-> st, primary_source |-> n_zones] : st \in Structures}
    \cup {[output_structure |-> st, resolution_strategy |-> "union"] :
            st \in Structures}
    \cup {[primary_source |-> n_zones],
          [output_structure |-> StructureOf(1, 1, 1)]}

\* the items main hands over: the records of the primary table, or the ids
\* collected from the union sources
ItemsFor(sp) ==
    IF IsUnion(sp) THEN SeqsUpTo({z1, cx}, MaxItems)
    ELSE SeqsUpTo({zone1, zone2}, MaxItems)

Init ==
    /\ pc = "start"
    /\ spec \in SpecSet
    /\ all_data \in AllDataSet
    /\ items_to_process \in ItemsFor(spec)
    /\ resolved_objects = <<>>
    /\ context = None /\ structure = None /\ rule = None /\ value = None
    /\ result = None
    /\ twin = None /\ stack = <<>> /\ sources = <<>>

\* output_structure = spec['output_structure']
Start ==
    /\ pc = "start"
    /\ IF Has(spec, "output_structure")
       THEN pc' = "loop" /\ result' = result
       ELSE pc' = "raised" /\ result' = Raise("KeyError")
    /\ UNCHANGED <<spec, all_data, items_to_process, resolved_objects,
                   context, structure, rule, value,
                   twin, stack, sources>>

\* _build_node of the context, unless making the context raised
BuiltFrom(ctx, sp, ad) ==
    IF IsRaise(ctx) THEN ctx
    ELSE BuildNode(ctx, sp.output_structure, ad)

\* the record the loop body builds for one item, or the exception it raises
ResolvedObj(sp, item, ad) == BuiltFrom(RootContext(sp, item), sp, ad)

\* Collect with the record put in front of the ones before it
CollectInFront(resolved_obj) ==
    IF IsRaise(resolved_obj)
    THEN /\ pc' = "raised"
         /\ result' = resolved_obj
         /\ UNCHANGED resolved_objects
    ELSE /\ resolved_objects' = <<resolved_obj>> \o resolved_objects
         /\ UNCHANGED <<pc, result>>

\* resolved_objects.append(resolved_obj), or the exception leaving the loop
Collect(resolved_obj) ==
    IF IsRaise(resolved_obj)
    THEN /\ pc' = "raised"
         /\ result' = resolved_obj
         /\ UNCHANGED resolved_objects
    ELSE /\ resolved_objects' = Append(resolved_objects, resolved_obj)
         /\ UNCHANGED <<pc, result>>

\* ResolveItem taking the item off items_to_process
ResolveItemConsuming ==
    /\ pc = "loop"
    /\ Len(resolved_objects) < Len(items_to_process)
    /\ Collect(ResolvedObj(spec, items_to_process[1], all_data))
    /\ items_to_process' = Tail(items_to_process)
    /\ UNCHANGED <<spec, all_data, context, structure, rule, value,
                   twin, stack, sources>>

\* one pass of the loop over items_to_process
ResolveItem ==
    /\ pc = "loop"
    /\ Len(resolved_objects) < Len(items_to_process)
    /\ Collect(ResolvedObj(spec, items_to_process[Len(resolved_objects) + 1],
                           all_data))
    /\ UNCHANGED <<spec, all_data, items_to_process,
                   context, structure, rule, value,
                   twin, stack, sources>>

\* return resolved_objects
Return ==
    /\ pc = "loop"
    /\ Len(resolved_objects) = Len(items_to_process)
    /\ pc' = "done"
    /\ result' = L(resolved_objects)
    /\ UNCHANGED <<spec, all_data, items_to_process, resolved_objects,
                   context, structure, rule, value,
                   twin, stack, sources>>

Next == Start \/ ResolveItem \/ Return

Spec == Init /\ [][Next]_vars

----------------------------------------------------------------------------
(* _build_node called on its own *)

\* the contexts: the root context of an item under either strategy, and a
\* list element (the context of a sub-object)
Contexts ==
    {RootContext([primary_source |-> n_zones], zone1),
     RootContext([primary_source |-> n_zones], zone2),
     RootContext([resolution_strategy |-> "union"], z1),
     RootContext([resolution_strategy |-> "union"], cx),
     spawner1, spawner2}

InitNode ==
    /\ pc = "call"
    /\ context \in Contexts
    /\ structure \in Structures
    /\ all_data \in AllDataSet
    /\ spec = None /\ items_to_process = <<>> /\ resolved_objects = <<>>
    /\ rule = None /\ value = None /\ result = None
    /\ twin = None /\ stack = <<>> /\ sources = <<>>

\* the call returns v or raises it
Outcome(v) ==
    /\ result' = v
    /\ pc' = IF IsRaise(v) THEN "raised" ELSE "returned"

BuildNodeCall ==
    /\ pc = "call"
    /\ Outcome(BuildNode(context, structure, all_data))
    /\ UNCHANGED <<spec, all_data, items_to_process, resolved_objects,
                   context, structure, rule, value,
                   twin, stack, sources>>

NextNode == BuildNodeCall

SpecNode == InitNode /\ [][NextNode]_vars

----------------------------------------------------------------------------
(* _get_value called on its own *)

InitValue ==
    /\ pc = "call"
    /\ context \in Contexts
    /\ rule \in SimpleRules
    /\ all_data \in AllDataSet
    /\ spec = None /\ items_to_process = <<>> /\ resolved_objects = <<>>
    /\ structure = None /\ value = None /\ result = None
    /\ twin = None /\ stack = <<>> /\ sources = <<>>

GetValueCall ==
    /\ pc = "call"
    /\ Outcome(GetValue(context, rule, all_data))
    /\ UNCHANGED <<spec, all_data, items_to_process, resolved_objects,
                   context, structure, rule, value,
                   twin, stack, sources>>

NextValue == GetValueCall

SpecValue == InitValue /\ [][NextValue]_vars

----------------------------------------------------------------------------
(* _apply_transform called on its own, with a split transform *)

\* how long the string handed in is at most
MaxLen == 4

Alphabet == {"0", "1", ".", ",", " "}

Strings == {S(s) : s \in SeqsUpTo(Alphabet, MaxLen)}

\* the split transforms: each target type, declared or not, over the
\* default delimiter, a declared one and one of two characters
SplitRules ==
    {[transform |-> [type |-> "split"]]}
    \cup {[transform |-> [type |-> "split", as_type |-> a]] :
            a \in {"int", "float", "string"}}
    \cup {[transform |-> [type |-> "split", as_type |-> a, delimiter |-> d]] :
            a \in {"int", "float", "string"},
            d \in {<<".">>, <<",", " ">>}}

InitTransform ==
    /\ pc = "call"
    /\ value \in Strings \cup {None, I(1), L(<<S(<<"1">>)>>)}
    /\ rule \in SplitRules
    /\ all_data = TableSet(None, None)
    /\ spec = None /\ items_to_process = <<>> /\ resolved_objects = <<>>
    /\ context = None /\ structure = None /\ result = None
    /\ twin = None /\ stack = <<>> /\ sources = <<>>

ApplyTransformCall ==
    /\ pc = "call"
    /\ Outcome(ApplyTransform(value, rule, all_data))
    /\ UNCHANGED <<spec, all_data, items_to_process, resolved_objects,
                   context, structure, rule, value,
                   twin, stack, sources>>

NextTransform == ApplyTransformCall

SpecTransform == InitTransform /\ [][NextTransform]_vars

----------------------------------------------------------------------------
(* Properties of resolve_data *)

\* the root context of an item, as the specification's strategy defines it
RootOf(item) ==
    IF Has(spec, "resolution_strategy") /\ spec.resolution_strategy = "union"
    THEN D(<< <<S(n_union_id), item>> >>)
    ELSE D(<< <<S(spec.primary_source), item>> >>)

\* C1: resolve_data returns one record per item, in the items' order: while
\* the loop runs and when it has returned, the k-th record is what
\* _build_node makes of the root context of the k-th item (primary_source
\* and union strategy alike), and the sequence returned has the items' length.
C1_OneRecordPerItem ==
    /\ pc \in {"loop", "done"} =>
        /\ Len(resolved_objects) <= Len(items_to_process)
        /\ \A k \in 1..Len(resolved_objects) :
              resolved_objects[k] =
                BuildNode(RootOf(items_to_process[k]), spec.output_structure,
                          all_data)
    /\ pc = "done" =>
        /\ result = L(resolved_objects)
        /\ Len(result.l) = Len(items_to_process)

\* a run that returned the records of two different items, which differ
C1_Witness ==
    /\ pc = "done"
    /\ Len(items_to_process) = 2
    /\ items_to_process[1] # items_to_process[2]
    /\ result.l[1] # result.l[2]

\* C8: nothing but a missing specification field aborts resolution: a run
\* of resolve_data raises only when the specification lacks
\* output_structure (or, without the union strategy, primary_source); a
\* rule that names a table of the wrong shape or lacks link_key or from
\* leaves its field None and the run goes on.
C8_OnlyMissingSpecFieldIsFatal ==
    pc = "raised" =>
        \/ ~Has(spec, "output_structure")
        \/ ~IsUnion(spec) /\ ~Has(spec, "primary_source")

----------------------------------------------------------------------------
(* Properties of _build_node *)

IsCoalesce(r) == Has(r, "coalesce")
IsObject(r) == ~IsCoalesce(r) /\ Has(r, "type") /\ r.type = "object"
IsList(r) == ~IsCoalesce(r) /\ Has(r, "type") /\ r.type = "list"
Returned == pc = "returned"
Field(k) == S(structure[k].key)
Present(k) == Field(k) \in KeySet(result)

\* the values of the sub-rules, each looked up and transformed on its own
SubValues(rs) ==
    [j \in 1..Len(rs) |-> ResolveSimpleValue(context, rs[j], all_data)]

\* the first sub-rule that has a value, if the ones before it have None
Winner(rs) ==
    LET vals == SubValues(rs)
        found == {j \in 1..Len(rs) :
                    /\ vals[j] # None /\ ~IsRaise(vals[j])
                    /\ \A h \in 1..(j - 1) : vals[h] = None}
    IN IF found = {} THEN 0 ELSE CHOOSE j \in found : TRUE

\* C2: a coalesce field has the value of the first sub-rule, in declared
\* order, whose looked-up and transformed value is not None, and None when
\* all are None; what comes after the winning sub-rule is not evaluated: a
\* later sub-rule that would raise does not make the call raise.
C2_CoalesceFirstNonNull ==
    /\ \A k \in 1..Len(structure) :
        (Returned /\ Present(k) /\ IsCoalesce(structure[k].rule)) =>
            LET rs == structure[k].rule.coalesce
                w == Winner(rs) IN
            /\ w # 0 => Lookup(result, Field(k)) = SubValues(rs)[w]
            /\ (\A j \in 1..Len(rs) : SubValues(rs)[j] = None)
                    => Lookup(result, Field(k)) = None
    /\ (/\ pc # "call"
        /\ Len(structure) = 1
        /\ IsCoalesce(structure[1].rule)
        /\ ~Has(structure[1].rule, "condition")
        /\ Winner(structure[1].rule.coalesce) # 0) => Returned

\* the second sub-rule wins and a sub-rule after it would raise
C2_Witness ==
    /\ Returned
    /\ \E k \in 1..Len(structure) :
        /\ Present(k) /\ IsCoalesce(structure[k].rule)
        /\ LET rs == structure[k].rule.coalesce IN
            /\ Winner(rs) = 2
            /\ \E j \in 3..Len(rs) : IsRaise(SubValues(rs)[j])

\* the fields of node, built from struct in context ctx, are those whose
\* condition is absent or true; and so for the records below node
RECURSIVE OmitsAsDeclared(_, _, _)
OmitsAsDeclared(node, ctx, struct) ==
    \A k \in 1..Len(struct) :
        LET key == S(struct[k].key)
            r == struct[k].rule IN
        /\ key \in KeySet(node) <=>
              \/ ~Has(r, "condition")
              \/ CheckCondition(ctx, r.condition, all_data) = B(TRUE)
        /\ (key \in KeySet(node) /\ IsObject(r) /\ Has(r, "fields")) =>
              OmitsAsDeclared(Lookup(node, key), ctx, r.fields)
        /\ (key \in KeySet(node) /\ IsList(r) /\ Has(r, "sub_object")) =>
              LET elems == Elements(LinkedList(ctx, r, all_data)) IN
              \A j \in 1..Len(elems) :
                  OmitsAsDeclared(Lookup(node, key).l[j], elems[j],
                                  r.sub_object)

\* C3: in the record _build_node returns, and in the records nested in it,
\* a field is a key exactly when its rule has no condition or a condition
\* that evaluates to true, whatever the form of the rule: a field whose
\* condition is false is absent, not None, and a field without a false
\* condition is present even with the value None.
C3_ConditionOmitsField ==
    Returned => OmitsAsDeclared(result, context, structure)

\* a scalar, coalesce, object or list field is left out for its condition
\* beside a field that is present
C3_Witness ==
    /\ Returned
    /\ \E k \in 1..Len(structure) :
        /\ Has(structure[k].rule, "condition")
        /\ CheckCondition(context, structure[k].rule.condition, all_data)
                = B(FALSE)
        /\ ~Present(k)
    /\ \E k \in 1..Len(structure) : Present(k)

\* C5: a List rule with a sub_object gives one child record per element of
\* the linked list, in the list's order, the j-th being _build_node of the
\* j-th element as the whole context: the parent's aliases are not visible
\* in it and from_parent reads the element's own fields; without a
\* sub_object the fetched list is the value.
C5_ListChildren ==
    \A k \in 1..Len(structure) :
        (Returned /\ Present(k) /\ IsList(structure[k].rule)) =>
            LET r == structure[k].rule
                linked_list == LinkedList(context, r, all_data)
                v == Lookup(result, Field(k)) IN
            IF ~Has(r, "sub_object") THEN v = linked_list
            ELSE linked_list.t = "list" =>
                /\ v.t = "list"
                /\ Len(v.l) = Len(linked_list.l)
                /\ \A j \in 1..Len(v.l) :
                    /\ v.l[j] = BuildNode(linked_list.l[j], r.sub_object,
                                          all_data)
                    /\ r.sub_object = SpawnObject =>
                        /\ Lookup(v.l[j], S(n_id))
                                = Lookup(linked_list.l[j], S(n_id))
                        /\ Lookup(v.l[j], S(n_zones)) = None

\* two spawners of a zone gave two different child records
C5_Witness ==
    /\ Returned
    /\ \E k \in 1..Len(structure) :
        /\ Present(k) /\ IsList(structure[k].rule)
        /\ Has(structure[k].rule, "sub_object")
        /\ Len(Lookup(result, Field(k)).l) = 2
        /\ Lookup(result, Field(k)).l[1] # Lookup(result, Field(k)).l[2]

\* the keys of node are the fields of struct that node has, in the order
\* struct declares them; and so for the records below node
RECURSIVE KeysAsDeclared(_, _, _)
KeysAsDeclared(node, ctx, struct) ==
    /\ Keys(node) = SelectSeq([k \in 1..Len(struct) |-> S(struct[k].key)],
                              LAMBDA key : key \in KeySet(node))
    /\ \A k \in 1..Len(struct) :
        LET key == S(struct[k].key)
            r == struct[k].rule IN
        /\ (key \in KeySet(node) /\ IsObject(r) /\ Has(r, "fields")) =>
              KeysAsDeclared(Lookup(node, key), ctx, r.fields)
        /\ (key \in KeySet(node) /\ IsList(r) /\ Has(r, "sub_object")) =>
              LET elems == Elements(LinkedList(ctx, r, all_data)) IN
              \A j \in 1..Len(elems) :
                  KeysAsDeclared(Lookup(node, key).l[j], elems[j],
                                 r.sub_object)

\* C9: the keys of every record _build_node returns are in the declaration
\* order of the structure's fields, without the omitted ones: none is
\* moved, repeated or added.
C9_KeysInDeclarationOrder ==
    Returned => KeysAsDeclared(result, context, structure)

\* a structure that declares b before a gave a record with b before a
C9_Witness ==
    /\ Returned
    /\ structure = StructureOf(2, PoolSize - 1, 2)
    /\ Keys(result) = <<S(<<"b">>), S(<<"a">>)>>

----------------------------------------------------------------------------
(* Properties of _get_value *)

\* C4: for a Linked rule {link_key, from: T, field: f} whose table T is in
\* the table set and whose link_key resolves to k: the value is T[k][f]
\* when k is a key of T and T[k] a record, and it is None, with no
\* exception raised, when k is None or not a key of T.
C4_LinkedLookup ==
    (/\ pc # "call"
     /\ Has(rule, "link_key") /\ Has(rule, "from") /\ Has(rule, "field")
     /\ Get(all_data, S(rule.from)).t = "dict"
     /\ ~IsRaise(GetValue(context, rule.link_key, all_data))) =>
        LET T == Get(all_data, S(rule.from))
            k == GetValue(context, rule.link_key, all_data) IN
        IF k # None /\ \E j \in 1..Len(T.d) : T.d[j][1] = k
        THEN Lookup(T, k).t = "dict" =>
                result = Get(Lookup(T, k), S(rule.field))
        ELSE result = None

----------------------------------------------------------------------------
(* Properties of _apply_transform *)

Delimiter ==
    IF Has(rule.transform, "delimiter") THEN rule.transform.delimiter
    ELSE <<",">>

AsType ==
    IF Has(rule.transform, "as_type") THEN rule.transform.as_type
    ELSE "string"

\* the pieces of the value between the delimiters
RawPieces == StrSplit(value.s, Delimiter)

\* the pieces trimmed, without those that trimming leaves empty
Trimmed ==
    SelectSeq([j \in 1..Len(RawPieces) |-> StrStrip(RawPieces[j])],
              LAMBDA piece : piece # <<>>)

Cast(piece) == IF AsType = "int" THEN ParseInt(piece) ELSE ParseFloat(piece)

RECURSIVE Join(_, _)
Join(pieces, d) ==
    IF Len(pieces) = 1 THEN pieces[1]
    ELSE pieces[1] \o d \o Join(Tail(pieces), d)

\* C6: when a piece cannot be cast in a split to int or float, the result
\* is the list of all trimmed pieces that are not empty, as strings: no
\* piece is cast and none is missing.
C6_CastFailureGivesStrings ==
    (/\ Returned /\ value.t = "str"
     /\ AsType \in {"int", "float"}
     /\ \E j \in 1..Len(Trimmed) : IsRaise(Cast(Trimmed[j]))) =>
        /\ result.t = "list"
        /\ Len(result.l) = Len(Trimmed)
        /\ \A j \in 1..Len(Trimmed) : result.l[j] = S(Trimmed[j])

\* a piece that is an int beside one that is not, in a split to int
C6_Witness ==
    /\ Returned /\ value.t = "str" /\ AsType = "int"
    /\ \E j \in 1..Len(Trimmed) : IsRaise(Cast(Trimmed[j]))
    /\ \E j \in 1..Len(Trimmed) : ~IsRaise(Cast(Trimmed[j]))
    /\ Len(result.l) = 2

\* C7: the split of a string is the pieces between the delimiters (a comma
\* unless one is declared), each trimmed, without the pieces that are then
\* empty, in the order they have in the string, each cast to the declared
\* type (string unless one is declared; C6 says what happens when a piece
\* cannot be cast).
C7_SplitTrimDropCast ==
    (Returned /\ value.t = "str") =>
        /\ Join(RawPieces, Delimiter) = value.s
        /\ \A j \in 1..Len(RawPieces) : Find(RawPieces[j], Delimiter) = 0
        /\ result.t = "list"
        /\ AsType \notin {"int", "float"} =>
              result.l = [j \in 1..Len(Trimmed) |-> S(Trimmed[j])]
        /\ (/\ AsType \in {"int", "float"}
            /\ \A j \in 1..Len(Trimmed) : ~IsRaise(Cast(Trimmed[j]))) =>
              result.l = [j \in 1..Len(Trimmed) |-> Cast(Trimmed[j])]
        /\ (value = S(<<"1", ",", " ", "0">>) /\ AsType = "int"
            /\ Delimiter = <<",">>) => result = L(<<I(1), I(0)>>)
        /\ (value = S(<<".", ",", " ", ",">>) /\ AsType = "string"
            /\ Delimiter = <<",">>) => result = L(<<S(<<".">>)>>)
        /\ (value = S(<<"1", ".", ",", "0">>) /\ AsType = "float"
            /\ Delimiter = <<",">>) => result = L(<<F(1, 0), F(0, 0)>>)

\* a split to int of three pieces, one of them empty, that gave two ints
C7_Witness ==
    /\ Returned /\ value.t = "str" /\ AsType = "int"
    /\ Len(RawPieces) = 3 /\ Len(Trimmed) = 2
    /\ result.t = "list" /\ Len(result.l) = 2
    /\ \A j \in 1..2 : result.l[j].t = "int"

----------------------------------------------------------------------------
(* _build_node against a table set that lacks a table, and against the     *)
(* table set that binds the same name to an empty table                    *)

\* the names of the tables
TableNames == {S(n_zones), S(n_creatures), S(n_spawners)}

\* the structures of one field whose rule is a simple rule
SingleRuleStructures == {<<[key |-> <<"a">>, rule |-> r]>> : r \in SimpleRules}

\* the table set without the table of that name
WithoutTable(ad, name) == D(SelectSeq(ad.d, LAMBDA p : p[1] # name))

\* the table set with that name bound to an empty table
WithEmptyTable(ad, name) == DictSet(ad, name, D(<<>>))

InitMissing ==
    /\ pc = "call"
    /\ context \in Contexts
    /\ structure \in Structures \cup SingleRuleStructures
    /\ all_data \in AllDataSet
    /\ value \in TableNames
    /\ spec = None /\ items_to_process = <<>> /\ resolved_objects = <<>>
    /\ rule = None /\ result = None
    /\ twin = None /\ stack = <<>> /\ sources = <<>>

\* the same call of _build_node on the two table sets
BuildNodeOnBoth ==
    /\ pc = "call"
    /\ result' = BuildNode(context, structure, WithoutTable(all_data, value))
    /\ twin' = BuildNode(context, structure, WithEmptyTable(all_data, value))
    /\ pc' = "compared"
    /\ UNCHANGED <<spec, all_data, items_to_process, resolved_objects,
                   context, structure, rule, value, stack, sources>>

NextMissing == BuildNodeOnBoth

SpecMissing == InitMissing /\ [][NextMissing]_vars

\* C11: a record built against a table set that lacks a table is the record
\* built against the table set that binds that name to an empty table: every
\* Linked lookup, List, condition and lookup transform of the structure gives
\* the same value and the same decision to omit, and so the same outcome.
C11_MissingAsEmpty == pc = "compared" => result = twin

----------------------------------------------------------------------------
(* The frame of resolve_data *)

\* C12: no step of resolve_data changes the table set or the items: every
\* table keeps the keys and the records it had when resolution began, and
\* the items handed in stay as they were.
C12_TablesAndItemsUnchanged ==
    [][all_data' = all_data /\ items_to_process' = items_to_process]_vars

\* a run over two items that read the tables (the name of the boss was
\* looked up in creatures) and returned
C12_Witness ==
    /\ pc = "done" /\ Len(items_to_process) = 2 /\ Len(result.l) = 2
    /\ Has(spec, "output_structure") /\ Len(spec.output_structure) = 2
    /\ spec.output_structure[1].rule = BossName
    /\ Lookup(result.l[1], S(spec.output_structure[1].key)) = Wolf
    /\ all_data \in AllDataSet

----------------------------------------------------------------------------
(* standardize_source (src/src/transformers/standardizer.py) *)

\* iter(v) succeeds
Iterable(v) == v.t \in {"list", "str", "dict"}

\* Stored that keeps the record a key already has
StoredFirst(map, key, item) ==
    IF IsRaise(map) THEN map
    ELSE IF IsRaise(key) THEN key
    ELSE IF ~Hashable(key) THEN Raise("TypeError")
    ELSE IF key \in KeySet(map) THEN map
    ELSE DictSet(map, key, item)

\* the map with  key: item  added by the comprehension
Stored(map, key, item) ==
    IF IsRaise(map) THEN map
    ELSE IF IsRaise(key) THEN key
    ELSE IF ~Hashable(key) THEN Raise("TypeError")
    ELSE DictSet(map, key, item)

RECURSIVE LookupMapOf(_, _)
\* {item.get(key_field): item for item in items}
LookupMapOf(items, key_field) ==
    IF items = <<>> THEN D(<<>>)
    ELSE Stored(LookupMapOf(SubSeq(items, 1, Len(items) - 1), key_field),
                Get(items[Len(items)], key_field), items[Len(items)])

create_lookup_map(data, key_field) ==
    IF ~Iterable(data) THEN Raise("TypeError")
    ELSE LookupMapOf(Elements(data), key_field)

\* Grouped that files a record without the key under None
GroupedAll(grouped_data, key, item) ==
    IF IsRaise(grouped_data) THEN grouped_data
    ELSE IF IsRaise(key) THEN key
    ELSE IF ~Hashable(key) THEN Raise("TypeError")
    ELSE IF key \in KeySet(grouped_data)
    THEN DictSet(grouped_data, key,
                 L(Append(Lookup(grouped_data, key).l, item)))
    ELSE DictSet(grouped_data, key, L(<<item>>))

\* grouped_data after one pass of the loop:
\* if key is not None: grouped_data[key].append(item)
Grouped(grouped_data, key, item) ==
    IF IsRaise(grouped_data) THEN grouped_data
    ELSE IF IsRaise(key) THEN key
    ELSE IF key = None THEN grouped_data
    ELSE IF ~Hashable(key) THEN Raise("TypeError")
    ELSE IF key \in KeySet(grouped_data)
    THEN DictSet(grouped_data, key,
                 L(Append(Lookup(grouped_data, key).l, item)))
    ELSE DictSet(grouped_data, key, L(<<item>>))

RECURSIVE GroupingMapOf(_, _)
\* grouped_data after the loop over items
GroupingMapOf(items, key_field) ==
    IF items = <<>> THEN D(<<>>)
    ELSE Grouped(GroupingMapOf(SubSeq(items, 1, Len(items) - 1), key_field),
                 Get(items[Len(items)], key_field), items[Len(items)])

create_grouping_map(data, key_field) ==
    IF ~Iterable(data) THEN Raise("TypeError")
    ELSE GroupingMapOf(Elements(data), key_field)

\* source_spec.get('strategy', 'lookup')
StrategyOf(source_spec) ==
    IF Has(source_spec, "strategy") THEN source_spec.strategy ELSE "lookup"

\* source_spec.get('key')
KeyOf(source_spec) ==
    IF Has(source_spec, "key") THEN S(source_spec.key) ELSE None

standardize_source(source_data, source_spec) ==
    IF ~Has(source_spec, "name") THEN Raise("KeyError")
    ELSE IF StrategyOf(source_spec) = "group_by"
    THEN IF ~Truthy(KeyOf(source_spec)) THEN Raise("ValueError")
         ELSE create_grouping_map(source_data, KeyOf(source_spec))
    ELSE IF Truthy(KeyOf(source_spec))
    THEN create_lookup_map(source_data, KeyOf(source_spec))
    ELSE source_data

\* how many records a source has at most
MaxRecords == 3

\* records as extraction yields them: two spawners of one zone, one of
\* another zone, one whose zid is null, and a record without zid
spawner3 == D(<< <<S(n_id), S(<<"s","1">>)>>, <<S(n_zid), z2>> >>)
spawner4 == D(<< <<S(n_id), S(<<"s","4">>)>>, <<S(n_zid), None>> >>)
RawRecords == {spawner1, spawner2, spawner3, spawner4, creature1}

\* what extraction hands over: a sequence of records, or null
SourceDatas == {L(recs) : recs \in SeqsUpTo(RawRecords, MaxRecords)} \cup {None}

\* the source declarations: raw, keyed (by default and by name of the
\* strategy), grouped, grouped without a key, keyed by a field no record has
SourceSpecs ==
    {[name |-> n_spawners],
     [name |-> n_spawners, key |-> n_zid],
     [name |-> n_spawners, key |-> n_id, strategy |-> "lookup"],
     [name |-> n_spawners, key |-> n_zid, strategy |-> "group_by"],
     [name |-> n_spawners, key |-> n_id, strategy |-> "group_by"],
     [name |-> n_spawners, strategy |-> "group_by"],
     [name |-> n_spawners, key |-> n_tags],
     [key |-> n_zid]}

InitStandardize ==
    /\ pc = "call"
    /\ value \in SourceDatas
    /\ rule \in SourceSpecs
    /\ all_data = None /\ spec = None
    /\ items_to_process = <<>> /\ resolved_objects = <<>>
    /\ context = None /\ structure = None /\ result = None
    /\ twin = None /\ stack = <<>> /\ sources = <<>>

StandardizeCall ==
    /\ pc = "call"
    /\ Outcome(standardize_source(value, rule))
    /\ UNCHANGED <<spec, all_data, items_to_process, resolved_objects,
                   context, structure, rule, value, twin, stack, sources>>

NextStandardize == StandardizeCall

SpecStandardize == InitStandardize /\ [][NextStandardize]_vars

----------------------------------------------------------------------------
(* Properties of standardize_source *)

\* the call standardizes a sequence of records by the strategy lookup
IsKeyed ==
    /\ Has(rule, "name") /\ Has(rule, "key")
    /\ StrategyOf(rule) # "group_by" /\ value.t = "list"

\* the call standardizes a sequence of records by the strategy group_by
IsGrouped ==
    /\ Has(rule, "name") /\ Has(rule, "key")
    /\ StrategyOf(rule) = "group_by" /\ value.t = "list"

\* the key the j-th input record carries (null when it has none)
KeyAt(j) == Get(value.l[j], S(rule.key))

\* the last input record that carries the key
LastWith(k) ==
    value.l[CHOOSE j \in 1..Len(value.l) :
                /\ KeyAt(j) = k
                /\ \A j2 \in (j + 1)..Len(value.l) : KeyAt(j2) # k]

\* the input records that carry the key, in input order
AllWith(k) == SelectSeq(value.l, LAMBDA item : Get(item, S(rule.key)) = k)

\* C13: the keyed table has each key once, its keys are the keys the input
\* records carry, and each key is bound to the last input record with it.
C13_LastRecordWins ==
    (Returned /\ IsKeyed) =>
        /\ result.t = "dict"
        /\ \A a, b \in 1..Len(result.d) :
              result.d[a][1] = result.d[b][1] => a = b
        /\ KeySet(result) = {KeyAt(j) : j \in 1..Len(value.l)}
        /\ \A k \in KeySet(result) : Lookup(result, k) = LastWith(k)

\* three records, two of them with one key: the table binds it to the later
C13_Witness ==
    /\ Returned /\ IsKeyed /\ Len(value.l) = 3
    /\ KeyAt(1) = KeyAt(3) /\ KeyAt(2) # KeyAt(1)
    /\ value.l[1] # value.l[3]
    /\ Len(result.d) = 2
    /\ Lookup(result, KeyAt(1)) = value.l[3]

\* C14: the grouped table binds each key that some input record carries to
\* the list of all input records with that key, in input order; it has no
\* other key, so a record without the key is in no group and no group is
\* empty.
C14_GroupsInInputOrder ==
    (Returned /\ IsGrouped) =>
        /\ result.t = "dict"
        /\ \A a, b \in 1..Len(result.d) :
              result.d[a][1] = result.d[b][1] => a = b
        /\ KeySet(result) = {KeyAt(j) : j \in 1..Len(value.l)} \ {None}
        /\ \A k \in KeySet(result) :
              /\ Lookup(result, k) = L(AllWith(k))
              /\ Lookup(result, k).l # <<>>
        /\ \A j \in 1..Len(value.l) :
              KeyAt(j) = None =>
                 \A k \in KeySet(result) :
                    \A i \in 1..Len(Lookup(result, k).l) :
                       Lookup(result, k).l[i] # value.l[j]

\* three records: two of one zone, grouped in their order, and between
\* them one without zid, which is in no group
C14_Witness ==
    /\ Returned /\ IsGrouped /\ Len(value.l) = 3
    /\ value.l[1] = spawner2 /\ value.l[2] = creature1
    /\ value.l[3] = spawner1 /\ rule.key = n_zid
    /\ result = D(<< <<z1, L(<<spawner2, spawner1>>)>> >>)

----------------------------------------------------------------------------
(* run_processing_pipeline (src/main.py): extraction and standardization   *)
(* of each source, then resolution                                         *)

\* how many sources a specification declares at most
MaxSources == 3

\* the source declarations: zones is given in the specification, the
\* others are extracted
ZonesSource ==
    [name |-> n_zones, type |-> "manual", key |-> n_id,
     data |-> L(<<zone1, zone2>>)]
CreaturesSource == [name |-> n_creatures, type |-> "api", key |-> n_id]
CreaturesRaw == [name |-> n_creatures, type |-> "api"]
SpawnersSource ==
    [name |-> n_spawners, type |-> "local_file", key |-> n_zid,
     strategy |-> "group_by"]
SourceDecls == {ZonesSource, CreaturesSource, CreaturesRaw, SpawnersSource}

\* the records an extraction that succeeds yields
ExtractedRecords(source_spec) ==
    IF source_spec.name = n_creatures THEN L(<<creature1>>)
    ELSE L(<<spawner1, spawner2>>)

\* the extractor raised, and the loop goes on to the next source
Continue == [t |-> "continue"]

\* raw_data: the data of a manual source; else what extraction returns
\* (records, or None on failure), unless the extractor raises
RawDataOf(source_spec) ==
    IF ~Has(source_spec, "name") \/ ~Has(source_spec, "type")
    THEN {Raise("KeyError")}
    ELSE IF source_spec.type = "manual"
    THEN IF Has(source_spec, "data") THEN {source_spec.data}
         ELSE {Raise("KeyError")}
    ELSE {Continue, None, ExtractedRecords(source_spec)}

\* all_data[source_name] = the standardized table, or the exception that
\* standardize_source raised leaving the pipeline
Store(standardized, raw_data, source_spec) ==
    /\ value' = raw_data
    /\ IF IsRaise(standardized)
       THEN /\ pc' = "raised"
            /\ result' = standardized
            /\ UNCHANGED <<all_data, sources>>
       ELSE /\ all_data' = DictSet(all_data, S(source_spec.name), standardized)
            /\ sources' = Tail(sources)
            /\ UNCHANGED <<pc, result>>

\* one pass of the loop over the sources
LoopBody(raw_data, source_spec) ==
    IF raw_data = Continue
    THEN /\ sources' = Tail(sources)
         /\ UNCHANGED <<pc, result, all_data, value>>
    ELSE IF IsRaise(raw_data)
    THEN /\ pc' = "raised"
         /\ result' = raw_data
         /\ UNCHANGED <<all_data, sources, value>>
    ELSE Store(standardize_source(raw_data, source_spec), raw_data,
               source_spec)

StandardizeNext ==
    /\ pc = "stage1"
    /\ sources # <<>>
    /\ \E raw_data \in RawDataOf(Head(sources)) :
          LoopBody(raw_data, Head(sources))
    /\ UNCHANGED <<spec, items_to_process, resolved_objects,
                   context, structure, rule, twin, stack>>

\* table.values()
Values(table) ==
    IF table.t # "dict" THEN Raise("AttributeError")
    ELSE L([j \in 1..Len(table.d) |-> table.d[j][2]])

\* a set of ids
IdSet(ids) == [t |-> "set", s |-> ids]

\* if item_id is not None: master_id_set.add(item_id)
AddId(master_id_set, item_id) ==
    IF IsRaise(item_id) THEN item_id
    ELSE IF item_id = None THEN master_id_set
    ELSE IF ~Hashable(item_id) THEN Raise("TypeError")
    ELSE IdSet(master_id_set.s \cup {item_id})

RECURSIVE IdsFrom(_, _, _)
\* the loop over the items of one union source
IdsFrom(items, id_field, master_id_set) ==
    IF IsRaise(master_id_set) \/ items = <<>> THEN master_id_set
    ELSE IdsFrom(Tail(items), id_field,
                 AddId(master_id_set, Get(Head(items), id_field)))

\* the ids of one union source added, given the values of its table
IdsOfSource(values, id_field, master_id_set) ==
    IF IsRaise(values) THEN values
    ELSE IdsFrom(values.l, S(id_field), master_id_set)

RECURSIVE MasterIdSet(_, _, _)
\* the loop over the union sources
MasterIdSet(union_sources, ad, master_id_set) ==
    IF IsRaise(master_id_set) \/ union_sources = <<>> THEN master_id_set
    ELSE IF ~Has(Head(union_sources), "name")
            \/ ~Has(Head(union_sources), "id_field")
    THEN Raise("KeyError")
    ELSE MasterIdSet(Tail(union_sources), ad,
            IdsOfSource(Values(GetDefault(ad, S(Head(union_sources).name),
                                          D(<<>>))),
                        Head(union_sources).id_field, master_id_set))

\* the orders in which a set may be iterated
OrdersOf(master_id_set) ==
    IF IsRaise(master_id_set) THEN {master_id_set}
    ELSE {L(order) : order \in
            {o \in [1..Cardinality(master_id_set.s) -> master_id_set.s] :
                \A a, b \in DOMAIN o : o[a] = o[b] => a = b}}

\* spec.get('union_sources', [])
UnionSourcesOf(sp) ==
    IF Has(sp, "union_sources") THEN sp.union_sources ELSE <<>>

\* spec.get('primary_source')
PrimarySourceOf(sp) ==
    IF Has(sp, "primary_source") THEN S(sp.primary_source) ELSE None

\* what main hands to resolve_data as items_to_process, or the exception
\* raised while collecting it
ItemsToProcess(sp, ad) ==
    IF IsUnion(sp)
    THEN OrdersOf(MasterIdSet(UnionSourcesOf(sp), ad, IdSet({})))
    ELSE {Values(GetDefault(ad, PrimarySourceOf(sp), D(<<>>)))}

\* resolve_data is entered with the items, unless collecting them raised
EnterWith(items) ==
    IF IsRaise(items)
    THEN /\ pc' = "raised"
         /\ result' = items
         /\ UNCHANGED items_to_process
    ELSE /\ pc' = "start"
         /\ items_to_process' = items.l
         /\ UNCHANGED result

\* the loop over the sources is over: stage 2 collects the items
BeginResolution ==
    /\ pc = "stage1"
    /\ sources = <<>>
    /\ \E items \in ItemsToProcess(spec, all_data) : EnterWith(items)
    /\ UNCHANGED <<spec, all_data, resolved_objects, context, structure,
                   rule, value, twin, stack, sources>>

\* the output structure of the pipeline's specifications: the name of the
\* boss, the spawners of the zone, the boss of the zone with the union id
PipelineStructure == <<FieldPool[2], FieldPool[4], FieldPool[13]>>

PipelineSpecs ==
    {[sources |-> ss, primary_source |-> n_zones,
      output_structure |-> PipelineStructure] :
        ss \in SeqsUpTo(SourceDecls, MaxSources)}
    \cup {[sources |-> ss, resolution_strategy |-> "union",
           union_sources |-> <<[name |-> n_zones, id_field |-> n_id],
                               [name |-> n_creatures, id_field |-> n_id]>>,
           output_structure |-> PipelineStructure] :
        ss \in SeqsUpTo(SourceDecls, MaxSources)}

InitPipeline ==
    /\ pc = "stage1"
    /\ spec \in PipelineSpecs
    /\ sources = spec.sources
    /\ all_data = D(<<>>)
    /\ items_to_process = <<>> /\ resolved_objects = <<>>
    /\ context = None /\ structure = None /\ rule = None /\ value = None
    /\ result = None /\ twin = None /\ stack = <<>>

NextPipeline ==
    StandardizeNext \/ BeginResolution \/ Start \/ ResolveItem \/ Return

SpecPipeline == InitPipeline /\ [][NextPipeline]_vars

\* C15: a source whose extraction returned null does not stop the pipeline:
\* the loop over the sources is never left by an exception standardize_source
\* raised on a null raw_data.
C15_NullSourceIsUnavailable ==
    (pc = "raised" /\ sources # <<>>) => value # None

----------------------------------------------------------------------------
(* _check_condition called on its own *)

\* the rules a condition resolves its key with
KeyRules ==
    {FromZone(n_boss), FromZone(n_id), FromZone(n_note), FromParent(n_cid),
     FromParent(n_zid), [from_context |-> n_union_id], UnionBoss,
     [from_context |-> n_zones], NoFrom}

\* the conditions: each table, each key rule, exists true, false and not
\* declared
Conditions ==
    {[source |-> n, key |-> k, exists |-> e] :
        n \in {n_zones, n_creatures, n_spawners}, k \in KeyRules,
        e \in BOOLEAN}
    \cup {[source |-> n, key |-> k] :
            n \in {n_zones, n_creatures, n_spawners}, k \in KeyRules}

InitCondition ==
    /\ pc = "call"
    /\ context \in Contexts
    /\ rule \in Conditions
    /\ all_data \in AllDataSet
    /\ spec = None /\ items_to_process = <<>> /\ resolved_objects = <<>>
    /\ structure = None /\ value = None /\ result = None
    /\ twin = None /\ stack = <<>> /\ sources = <<>>

CheckConditionCall ==
    /\ pc = "call"
    /\ Outcome(CheckCondition(context, rule, all_data))
    /\ UNCHANGED <<spec, all_data, items_to_process, resolved_objects,
                   context, structure, rule, value, twin, stack, sources>>

NextCondition == CheckConditionCall

SpecCondition == InitCondition /\ [][NextCondition]_vars

\* what the key of the condition resolves to
ConditionKey == GetValue(context, rule.key, all_data)

\* the table the condition names (an empty one when the table set lacks it)
ConditionTable == GetDefault(all_data, S(rule.source), D(<<>>))

\* the resolved key is a key of the table
IsKeyOfTable ==
    ConditionTable.t = "dict" /\ ConditionKey \in KeySet(ConditionTable)

\* the exists flag is true
ExistsFlag == Has(rule, "exists") /\ rule.exists

\* C16: a condition whose key resolves to null is false whatever the exists
\* flag; any other is true exactly when the resolved key is a key of the
\* named table and exists is true, or is not one and exists is false (or not
\* declared).
C16_ConditionIsMembership ==
    Returned =>
        result = B(IF ConditionKey = None THEN FALSE
                   ELSE IF ExistsFlag THEN IsKeyOfTable
                   ELSE ~IsKeyOfTable)

\* a condition with exists false whose key resolved to null, and was false
C16_Witness ==
    /\ Returned /\ Has(rule, "exists") /\ ~rule.exists
    /\ ConditionKey = None
    /\ result = B(FALSE)

----------------------------------------------------------------------------
(* Object rules *)

\* the structure without its k-th field
Others(k) ==
    [j \in 1..(Len(structure) - 1) |->
        structure[IF j < k THEN j ELSE j + 1]]

\* the record without the field of that name
RestOf(node, name) == D(SelectSeq(node.d, LAMBDA p : p[1] # name))

\* the k-th field is an object rule without fields (and without condition)
IsBareObject(k) ==
    /\ IsObject(structure[k].rule)
    /\ ~Has(structure[k].rule, "fields")
    /\ ~Has(structure[k].rule, "condition")

\* C17: an object field that declares fields holds the record _build_node
\* builds from those fields with the context of the call; an object field
\* without fields holds null, and the other fields of the structure come out
\* as they do from the structure without that field (an exception among
\* them included).
C17_ObjectFields ==
    /\ Returned =>
          \A k \in 1..Len(structure) :
             (IsObject(structure[k].rule) /\ Present(k)) =>
                Lookup(result, Field(k)) =
                   IF Has(structure[k].rule, "fields")
                   THEN BuildNode(context, structure[k].rule.fields, all_data)
                   ELSE None
    /\ pc # "call" =>
          \A k \in 1..Len(structure) :
             IsBareObject(k) =>
                IF IsRaise(result)
                THEN BuildNode(context, Others(k), all_data) = result
                ELSE /\ Present(k)
                     /\ RestOf(result, Field(k)) =
                           BuildNode(context, Others(k), all_data)

\* an object field without fields came out null, and the field after it
\* was resolved to the id of the zone
C17_Witness ==
    /\ Returned /\ Len(structure) = 2
    /\ IsBareObject(1)
    /\ structure[2].rule = FromZone(n_id)
    /\ result = D(<< <<Field(1), None>>, <<Field(2), z1>> >>)

----------------------------------------------------------------------------
(* _get_value call by call: each step enters a call of _get_value or       *)
(* leaves one                                                              *)

\* how many calls of _get_value are in progress at most
MaxDepth == 5

\* a Linked rule whose link_key is a Linked rule of the same table, and one
\* whose link_key is a chain of three
SameTable ==
    [link_key |-> [link_key |-> [from_context |-> n_union_id],
                   from |-> n_zones, field |-> n_id],
     from |-> n_zones, field |-> n_boss]
Deep == [link_key |-> Chained, from |-> n_creatures]

DescentRules == SimpleRules \cup {SameTable, Deep}

\* NextRule that re-enters the rule
SameRule(r) == r

\* the rule of the recursive call: rule['link_key']
NextRule(r) == r.link_key

\* the call recurses: the rule is a Linked rule whose table is there
Recurses(r, ad) ==
    /\ Has(r, "link_key") /\ Has(r, "from")
    /\ Get(ad, S(r.from)) # None

\* what a call that does not recurse returns
Direct(ctx, r, ad) ==
    IF Has(r, "link_key") THEN
        IF ~Has(r, "from") THEN Raise("KeyError") ELSE None
    ELSE GetValue(ctx, r, ad)

InitDescent ==
    /\ pc = "descend"
    /\ context \in Contexts
    /\ rule \in DescentRules
    /\ all_data \in AllDataSet
    /\ stack = <<rule>>
    /\ spec = None /\ items_to_process = <<>> /\ resolved_objects = <<>>
    /\ structure = None /\ value = None /\ result = None
    /\ twin = None /\ sources = <<>>

\* the innermost call evaluates rule['link_key']: one more call
Enter ==
    /\ pc = "descend"
    /\ Len(stack) < MaxDepth
    /\ Recurses(stack[Len(stack)], all_data)
    /\ stack' = Append(stack, NextRule(stack[Len(stack)]))
    /\ UNCHANGED <<pc, spec, all_data, items_to_process, resolved_objects,
                   context, structure, rule, value, result, twin, sources>>

\* the innermost call does not recurse: it returns (or raises)
LeaveDirect ==
    /\ pc = "descend"
    /\ ~Recurses(stack[Len(stack)], all_data)
    /\ result' = Direct(context, stack[Len(stack)], all_data)
    /\ stack' = SubSeq(stack, 1, Len(stack) - 1)
    /\ pc' = "ascend"
    /\ UNCHANGED <<spec, all_data, items_to_process, resolved_objects,
                   context, structure, rule, value, twin, sources>>

\* a call gets its lookup_key (or the exception) from the call it made,
\* and returns the linked value (or lets the exception through)
LeaveLinked ==
    /\ pc = "ascend"
    /\ stack # <<>>
    /\ result' = LinkedField(
                    LinkedItem(Get(all_data, S(stack[Len(stack)].from)),
                               result),
                    stack[Len(stack)])
    /\ stack' = SubSeq(stack, 1, Len(stack) - 1)
    /\ UNCHANGED <<pc, spec, all_data, items_to_process, resolved_objects,
                   context, structure, rule, value, twin, sources>>

\* the outermost call has returned or raised
Finish ==
    /\ pc = "ascend"
    /\ stack = <<>>
    /\ pc' = IF IsRaise(result) THEN "raised" ELSE "returned"
    /\ UNCHANGED <<spec, all_data, items_to_process, resolved_objects,
                   context, structure, rule, value, result, twin, stack,
                   sources>>

NextDescent == Enter \/ LeaveDirect \/ LeaveLinked \/ Finish

\* a call in progress goes on: the program runs one thread
SpecDescent == InitDescent /\ [][NextDescent]_vars /\ WF_vars(NextDescent)

RECURSIVE ChainOf(_)
\* the rule, its link_key, the link_key of that, and so on
ChainOf(r) ==
    IF Has(r, "link_key") THEN <<r>> \o ChainOf(r.link_key) ELSE <<r>>

\* the call is over
Finished == pc \in {"returned", "raised"}

\* the steps the call has left at most
Measure ==
    CASE pc = "descend" -> 2 * Len(ChainOf(rule)) - Len(stack) + 2
      [] pc = "ascend"  -> Len(stack) + 1
      [] OTHER          -> 0

\* C18: a call of _get_value comes to an end.  The calls in progress are
\* the rule, its link_key, the link_key of that, and so on, whatever the
\* tables hold: no rule is entered twice; every step leaves fewer steps to
\* take; and the call ends with the value _get_value has for the rule.
C18_GetValueTerminates ==
    /\ [](/\ Len(stack) <= Len(ChainOf(rule))
          /\ \A j \in 1..Len(stack) : stack[j] = ChainOf(rule)[j])
    /\ [][Measure' < Measure]_vars
    /\ [](Finished => result = GetValue(context, rule, all_data))
    /\ <>Finished

\* a chain of three rules was followed through two tables to the name
C18_Witness ==
    /\ pc = "returned" /\ stack = <<>>
    /\ rule = Chained /\ Len(ChainOf(rule)) = 3
    /\ result = Wolf

----------------------------------------------------------------------------
(* List rules *)

\* the structure is one list field that builds no sub-objects
IsPlainList ==
    /\ Len(structure) = 1
    /\ IsList(structure[1].rule)
    /\ ~Has(structure[1].rule, "sub_object")

\* C19: a record of one list field is built without an exception, and the
\* field, when it is there, holds a sequence, whatever the tables hold.
C19_ListIsSequence ==
    (pc # "call" /\ IsPlainList) =>
        /\ Returned
        /\ Present(1) => Lookup(result, Field(1)).t = "list"
====
